---- MODULE Spec2Model ----
(***************************************************************************)
(* Model of treblle_flask: the TelemetryPublisher (background delivery     *)
(* worker, telemetry_publisher.py) and the TelemetryGatherer (payload      *)
(* capture and masking, telemetry_gatherer.py).                            *)
(*                                                                         *)
(* Spec          : the publisher, its worker thread and event loop, the    *)
(*                 request threads calling send_to_treblle and the threads *)
(*                 calling teardown.                                       *)
(***************************************************************************)
EXTENDS Integers, Sequences, FiniteSets, TLC

VARIABLES
    session,      \* self._session: "None" or "ClientSession"
    ctx,          \* the aiohttp ClientSession context: unopened / entered / exited
    cursor,       \* position of self._hosts_cycle in its list (0-based)
    custom_url,   \* the custom_url constructor argument ("None" or a url)
    loop,         \* publisher thread: "starting", "running" (run_forever), "exited"
    ready,        \* callbacks handed to the event loop, in FIFO order
    inflight,     \* _process_request coroutines suspended in session.post
    attempts,     \* history: the runs of _process_request, in worker order
    futres,       \* result of each send's future, by payload: "pending", "None" or an exception
    closeres,     \* result of each teardown's future: "pending" or "None"
    callers,      \* per request thread: position inside send_to_treblle
    closers,      \* per teardown thread: position inside teardown
    ntear,        \* number of teardown calls so far
    cfg,          \* the arguments the gatherer was constructed with
    environ,      \* os.environ when the gatherer was constructed
    g,            \* flask.g of the exchange: treblle_payload and treblle_start_time
    now,          \* time(), in milliseconds
    ret,          \* the last call of a handler: what it returned or raised
    hist,         \* history: what the host passed to the handlers, what the hooks did
    done,         \* the handlers the host has called on this exchange
    passes        \* history: a value given to _mask_data, then the result of each pass

pubvars == <<session, ctx, cursor, custom_url, loop, ready, inflight, attempts,
             futres, closeres, callers, closers, ntear>>

gathvars == <<cfg, environ, g, now, ret, hist, done, passes>>

vars == <<pubvars, gathvars>>

----------------------------------------------------------------------------
(* Bounds of the model *)

\* total number of send_to_treblle calls explored
MaxSends == 4

\* total number of teardown calls explored (explicit calls and __del__)
MaxTeardowns == 3

\* send_to_treblle calls explored when the seconds a caller waits are counted
MaxTimedSends == 2

\* milliseconds that may pass during one exchange
MaxNow == 1

\* successive passes of _mask_data over one value
MaxPasses == 3

\* request-serving threads and the threads that may call teardown
RequestThreads == {"r1", "r2"}
TeardownThreads == {"t1", "t2"}

----------------------------------------------------------------------------
(* Program constants *)

BACKEND_HOSTS ==
    << "https://rocknrolla.treblle.com",
       "https://punisher.treblle.com",
       "https://sicario.treblle.com" >>

CUSTOM == "https://custom.example"

\* timeout of future.result in send_to_treblle, seconds
RESULT_TIMEOUT == 3

----------------------------------------------------------------------------
(* TelemetryPublisher *)

\* __init__: the list the cycle runs over
HostList(custom) == IF custom # "None" THEN <<custom>> ELSE BACKEND_HOSTS

\* a cursor that is not advanced by next()
CycleStuck(pos, n) == pos

\* itertools.cycle: the position after one next()
CycleAdvance(pos, n) == (pos + 1) % n

\* next(self._hosts_cycle): the host returned at position pos
CycleHost(custom, pos) == HostList(custom)[pos + 1]

\* a handler that catches the timeout of the POST only
ProcessCatchesTimeoutOnly(e) == e = "TimeoutError"

\* `except Exception` of _process_request: is exception e swallowed there
ProcessCatches(e) == TRUE

\* `except Exception` of send_to_treblle: is exception e swallowed there
SendCatches(e) == TRUE

Idle == [pc |-> "idle", p |-> 0, waited |-> 0, raised |-> "none"]

\* __init__ of the publisher, with the threads of the scenario
PubInit(rthreads, tthreads) ==
    /\ session = "None"
    /\ ctx = "unopened"
    /\ cursor = 0
    /\ custom_url \in {"None", CUSTOM}
    /\ loop = "starting"
    /\ ready = <<>>
    /\ inflight = {}
    /\ attempts = <<>>
    /\ futres = <<>>
    /\ closeres = [u \in tthreads |-> "pending"]
    /\ callers = [t \in rthreads |-> Idle]
    /\ closers = [u \in tthreads |-> [pc |-> "idle", returned |-> FALSE]]
    /\ ntear = 0

\* number of send_to_treblle calls so far: each creates one future
nsent == Len(futres)

\* _run_event_loop, first half: run_until_complete(_init_session())
InitSession ==
    /\ loop = "starting"
    /\ session' = "ClientSession"
    /\ ctx' = "entered"
    /\ loop' = "running"
    /\ UNCHANGED gathvars
    /\ UNCHANGED <<cursor, custom_url, ready, inflight, attempts, futres, closeres,
                   callers, closers, ntear>>

\* send_to_treblle, line 97: run_coroutine_threadsafe(self._process_request(payload))
\* `ser` tells whether json.dumps accepts the payload
SendSubmit(t, ser, limit) ==
    /\ callers[t].pc = "idle"
    /\ nsent < limit
    /\ futres' = Append(futres, "pending")
    /\ ready' = Append(ready, [kind |-> "process", id |-> nsent + 1, ser |-> ser])
    /\ callers' = [callers EXCEPT ![t] =
                     [@ EXCEPT !.pc = "waiting", !.p = nsent + 1]]
    /\ UNCHANGED gathvars
    /\ UNCHANGED <<session, ctx, cursor, custom_url, loop, inflight, attempts,
                   closeres, closers, ntear>>

\* what future.result(timeout=3) raises once the future is resolved or the timeout is over
ResultRaises(t) ==
    IF futres[callers[t].p] = "pending" THEN "TimeoutError"
    ELSE IF futres[callers[t].p] = "None" THEN "none"
    ELSE futres[callers[t].p]

\* send_to_treblle, lines 99-102: future.result(timeout=3) returns or raises.
\* With timed = FALSE the seconds are not counted and the timeout may be over at
\* any moment.
SendReturn(t, timed) ==
    /\ callers[t].pc = "waiting"
    /\ \/ futres[callers[t].p] # "pending"
       \/ timed => callers[t].waited = RESULT_TIMEOUT
    /\ LET e == ResultRaises(t) IN
         callers' = [callers EXCEPT ![t] =
                       [@ EXCEPT !.pc = "idle",
                                 !.waited = 0,
                                 !.raised = IF e = "none" \/ SendCatches(e)
                                            THEN @ ELSE e]]
    /\ UNCHANGED gathvars
    /\ UNCHANGED <<session, ctx, cursor, custom_url, loop, ready, inflight,
                   attempts, futres, closeres, closers, ntear>>

\* how an exception raised inside _process_request leaves the coroutine
Swallow(e) == IF ProcessCatches(e) THEN "None" ELSE e

\* _process_request up to its first suspension: next(self._hosts_cycle), json.dumps,
\* gzip.compress, self._session.post
ProcessStart ==
    /\ loop = "running"
    /\ ready # <<>>
    /\ Head(ready).kind = "process"
    /\ LET cb == Head(ready)
           att == [id |-> cb.id, host |-> CycleHost(custom_url, cursor)]
       IN
         /\ cursor' = CycleAdvance(cursor, Len(HostList(custom_url)))
         /\ ready' = Tail(ready)
         /\ IF ~cb.ser
            THEN \* json.dumps raises TypeError
                 /\ attempts' = Append(attempts, att @@ [outcome |-> "failed"])
                 /\ futres' = [futres EXCEPT ![cb.id] = Swallow("TypeError")]
                 /\ UNCHANGED inflight
            ELSE IF session = "None"
            THEN \* None has no attribute post
                 /\ attempts' = Append(attempts, att @@ [outcome |-> "failed"])
                 /\ futres' = [futres EXCEPT ![cb.id] = Swallow("AttributeError")]
                 /\ UNCHANGED inflight
            ELSE /\ attempts' = Append(attempts, att @@ [outcome |-> "posting"])
                 /\ inflight' = inflight \cup {cb.id}
                 /\ UNCHANGED futres
    /\ UNCHANGED gathvars
    /\ UNCHANGED <<session, ctx, custom_url, loop, closeres, callers, closers, ntear>>

\* the ways the POST and the reading of its response can end: a response, whose
\* status and text are only logged, or an exception
PostOutcomes == {"response", "ClientConnectorError", "TimeoutError"}

\* _process_request, lines 75-94: the POST ends
ProcessFinish(id, o) ==
    /\ loop = "running"
    /\ id \in inflight
    /\ inflight' = inflight \ {id}
    /\ attempts' = [attempts EXCEPT ![id].outcome =
                                   IF o = "response" THEN "done" ELSE "failed"]
    /\ futres' = [futres EXCEPT ![id] = IF o = "response" THEN "None" ELSE Swallow(o)]
    /\ UNCHANGED gathvars
    /\ UNCHANGED <<session, ctx, cursor, custom_url, loop, ready, closeres, callers,
                   closers, ntear>>

\* is thread t blocked in future.result
Blocked(t) == callers[t].pc = "waiting" /\ futres[callers[t].p] = "pending"

\* one second passes for every thread blocked in future.result
Tick ==
    /\ \E t \in DOMAIN callers : Blocked(t)
    /\ \A t \in DOMAIN callers : Blocked(t) => callers[t].waited < RESULT_TIMEOUT
    /\ callers' = [t \in DOMAIN callers |->
                     IF Blocked(t) THEN [callers[t] EXCEPT !.waited = @ + 1]
                     ELSE callers[t]]
    /\ UNCHANGED gathvars
    /\ UNCHANGED <<session, ctx, cursor, custom_url, loop, ready, inflight, attempts,
                   futres, closeres, closers, ntear>>

\* teardown, line 105: `if self._session:`
TeardownCheck(u, limit) ==
    /\ closers[u].pc = "idle"
    /\ ntear < limit
    /\ ntear' = ntear + 1
    /\ closers' = [closers EXCEPT ![u] =
                     IF session # "None"
                     THEN [@ EXCEPT !.pc = "schedule"]
                     ELSE [@ EXCEPT !.returned = TRUE]]
    /\ UNCHANGED gathvars
    /\ UNCHANGED <<session, ctx, cursor, custom_url, loop, ready, inflight,
                   attempts, futres, closeres, callers>>

\* teardown, line 106: run_coroutine_threadsafe(self._close_session(), ...)
TeardownSchedule(u) ==
    /\ closers[u].pc = "schedule"
    /\ ready' = Append(ready, [kind |-> "close", id |-> u, ser |-> TRUE])
    /\ closeres' = [closeres EXCEPT ![u] = "pending"]
    /\ closers' = [closers EXCEPT ![u].pc = "result"]
    /\ UNCHANGED gathvars
    /\ UNCHANGED <<session, ctx, cursor, custom_url, loop, inflight, attempts,
                   futres, callers, ntear>>

\* _close_session, run by the event loop
CloseSession ==
    /\ loop = "running"
    /\ ready # <<>>
    /\ Head(ready).kind = "close"
    /\ ready' = Tail(ready)
    /\ IF session # "None"
       THEN session' = "None" /\ ctx' = "exited"
       ELSE UNCHANGED <<session, ctx>>
    /\ closeres' = [closeres EXCEPT ![Head(ready).id] = "None"]
    /\ UNCHANGED gathvars
    /\ UNCHANGED <<cursor, custom_url, loop, inflight, attempts, futres, callers,
                   closers, ntear>>

\* teardown, lines 106-107: .result() returns, then call_soon_threadsafe(loop.stop)
TeardownStop(u) ==
    /\ closers[u].pc = "result"
    /\ closeres[u] # "pending"
    /\ ready' = Append(ready, [kind |-> "stop", id |-> u, ser |-> TRUE])
    /\ closers' = [closers EXCEPT ![u].pc = "join"]
    /\ UNCHANGED gathvars
    /\ UNCHANGED <<session, ctx, cursor, custom_url, loop, inflight, attempts,
                   futres, closeres, callers, ntear>>

\* self._event_loop.stop, run by the event loop: run_forever returns and the
\* publisher thread ends
LoopStop ==
    /\ loop = "running"
    /\ ready # <<>>
    /\ Head(ready).kind = "stop"
    /\ ready' = Tail(ready)
    /\ loop' = "exited"
    /\ UNCHANGED gathvars
    /\ UNCHANGED <<session, ctx, cursor, custom_url, inflight, attempts, futres,
                   closeres, callers, closers, ntear>>

\* teardown, line 108: self._publisher_thread.join() returns
TeardownJoin(u) ==
    /\ closers[u].pc = "join"
    /\ loop = "exited"
    /\ closers' = [closers EXCEPT ![u] = [pc |-> "idle", returned |-> TRUE]]
    /\ UNCHANGED gathvars
    /\ UNCHANGED <<session, ctx, cursor, custom_url, loop, ready, inflight,
                   attempts, futres, closeres, callers, ntear>>

\* the worker thread and its event loop
Worker ==
    \/ InitSession
    \/ ProcessStart
    \/ \E id \in inflight, o \in PostOutcomes : ProcessFinish(id, o)
    \/ CloseSession
    \/ LoopStop

\* the request threads, submitting at most maxSends payloads
RequestSteps(maxSends) ==
    \/ \E t \in DOMAIN callers, ser \in BOOLEAN : SendSubmit(t, ser, maxSends)
    \/ \E t \in DOMAIN callers : SendReturn(t, FALSE)

\* the request threads, with the seconds spent in future.result counted
TimedRequestSteps(maxSends) ==
    \/ \E t \in DOMAIN callers, ser \in BOOLEAN : SendSubmit(t, ser, maxSends)
    \/ \E t \in DOMAIN callers : SendReturn(t, TRUE)
    \/ Tick

\* the threads calling teardown, at most maxTear times
Teardowns(maxTear) ==
    \/ \E u \in DOMAIN closers : TeardownCheck(u, maxTear)
    \/ \E u \in DOMAIN closers : TeardownSchedule(u)
    \/ \E u \in DOMAIN closers : TeardownStop(u)
    \/ \E u \in DOMAIN closers : TeardownJoin(u)

----------------------------------------------------------------------------
(* Text: a Python str is modelled as a sequence of one-character strings *)

Range(s) == {s[i] : i \in 1..Len(s)}

UPPER == <<"A","B","C","D","E","F","G","H","I","J","K","L","M","N","O","P","Q","R","S","T","U","V","W","X","Y","Z">>
LOWER == <<"a","b","c","d","e","f","g","h","i","j","k","l","m","n","o","p","q","r","s","t","u","v","w","x","y","z">>
DIGITS == <<"0","1","2","3","4","5","6","7","8","9">>

\* str.lower, one character
LowerChar(c) ==
    IF \E i \in 1..Len(UPPER) : UPPER[i] = c
    THEN LOWER[CHOOSE i \in 1..Len(UPPER) : UPPER[i] = c]
    ELSE c

\* str.lower
Lower(s) == [i \in 1..Len(s) |-> LowerChar(s[i])]

IsDigit(c) == c \in Range(DIGITS)
IsAlpha(c) == c \in Range(UPPER) \cup Range(LOWER)
IsSpace(c) == c \in {" ", "\t", "\n", "\r"}

SetMin(S) == CHOOSE x \in S : \A y \in S : x <= y
SetMax(S) == CHOOSE x \in S : \A y \in S : x >= y

\* str.strip
Strip(s) ==
    LET keep == {i \in 1..Len(s) : ~IsSpace(s[i])}
    IN IF keep = {} THEN <<>> ELSE SubSeq(s, SetMin(keep), SetMax(keep))

\* str.split(c): the pieces between the occurrences of the character c
RECURSIVE Split(_, _)
Split(s, c) ==
    IF c \notin Range(s) THEN <<s>>
    ELSE LET i == SetMin({j \in 1..Len(s) : s[j] = c})
         IN <<SubSeq(s, 1, i - 1)>> \o Split(SubSeq(s, i + 1, Len(s)), c)

\* '*' * n
Stars(n) == [i \in 1..n |-> "*"]

\* str(n) of a non-negative int
RECURSIVE Digits(_)
Digits(n) == IF n < 10 THEN <<DIGITS[n + 1]>>
             ELSE Digits(n \div 10) \o <<DIGITS[(n % 10) + 1]>>

\* does s begin with prefix p
StartsWith(s, p) == Len(s) >= Len(p) /\ SubSeq(s, 1, Len(p)) = p

\* is p a substring of s
Within(p, s) == \E i \in 0..(Len(s) - Len(p)) : SubSeq(s, i + 1, i + Len(p)) = p

----------------------------------------------------------------------------
(* JSON documents and Python values: tagged records                        *)
(*   [t |-> "str", v |-> text]     [t |-> "int", v |-> n]   [t |-> "null"] *)
(*   [t |-> "list", v |-> <<values>>]                                      *)
(*   [t |-> "dict", v |-> <<[k |-> text, v |-> value], ...>>]              *)

StrV(s) == [t |-> "str", v |-> s]
IntV(n) == [t |-> "int", v |-> n]
NullV == [t |-> "null", v |-> 0]
ListV(items) == [t |-> "list", v |-> items]
DictV(items) == [t |-> "dict", v |-> items]
KV(key, val) == [k |-> key, v |-> val]
EmptyDict == DictV(<<>>)

\* repr(x); the strings of the model hold no quote and no backslash
RECURSIVE Repr(_)
RECURSIVE ReprItems(_, _, _)
ReprItems(items, i, isDict) ==
    IF i > Len(items) THEN <<>>
    ELSE (IF i > 1 THEN <<","," ">> ELSE <<>>)
         \o (IF isDict
             THEN <<"'">> \o items[i].k \o <<"'">> \o <<":"," ">> \o Repr(items[i].v)
             ELSE Repr(items[i]))
         \o ReprItems(items, i + 1, isDict)
Repr(x) ==
    CASE x.t = "str" -> <<"'">> \o x.v \o <<"'">>
      [] x.t = "int" -> Digits(x.v)
      [] x.t = "null" -> <<"N","o","n","e">>
      [] x.t = "list" -> <<"[">> \o ReprItems(x.v, 1, FALSE) \o <<"]">>
      [] x.t = "dict" -> <<"{">> \o ReprItems(x.v, 1, TRUE) \o <<"}">>

\* str(x)
PyStr(x) == IF x.t = "str" THEN x.v ELSE Repr(x)

\* bool(x): the truth value Python gives a parsed body
Truthy(x) ==
    CASE x.t = "str" -> x.v # <<>>
      [] x.t = "int" -> x.v # 0
      [] x.t = "null" -> FALSE
      [] x.t = "list" -> x.v # <<>>
      [] x.t = "dict" -> x.v # <<>>

----------------------------------------------------------------------------
(* TelemetryGatherer: masking *)

COMMON_AUTH_SCHEMES ==
    { <<"B","a","s","i","c">>, <<"B","e","a","r","e","r">>, <<"D","i","g","e","s","t">>, <<"N","e","g","o","t","i","a","t","e">>, <<"O","A","u","t","h">>,
      <<"A","W","S","4","-","H","M","A","C","-","S","H","A","2","5","6">>, <<"H","O","B","A">>, <<"M","u","t","u","a","l">> }

SENSITIVE_HEADERS == { <<"a","u","t","h","o","r","i","z","a","t","i","o","n">>, <<"x","-","a","p","i","-","k","e","y">> }

MAX_RESPONSE_BODY_SIZE == 2 * 1024 * 1024

\* _is_base64_image, line 96: values shorter than this are never images
MIN_IMAGE_LENGTH == 100

IMAGE_PLACEHOLDER == <<"b","a","s","e","6","4"," ","e","n","c","o","d","e","d"," ","i","m","a","g","e","s"," ","a","r","e"," ","t","o","o"," ","b","i","g"," ","t","o"," ","p","r","o","c","e","s","s">>

B64ALPHABET == Range(UPPER) \cup Range(LOWER) \cup Range(DIGITS) \cup {"+", "/"}

\* the regular expression ^data:image/[a-zA-Z]*;base64,[A-Za-z0-9+/]+={0,2}$
DataUriMatch(s) ==
    /\ StartsWith(s, <<"d","a","t","a",":","i","m","a","g","e","/">>)
    /\ \E i \in (Len(<<"d","a","t","a",":","i","m","a","g","e","/">>) + 1)..Len(s) :
         /\ \A j \in (Len(<<"d","a","t","a",":","i","m","a","g","e","/">>) + 1)..(i - 1) : IsAlpha(s[j])
         /\ StartsWith(SubSeq(s, i, Len(s)), <<";","b","a","s","e","6","4",",">>)
         /\ LET rest == SubSeq(s, i + Len(<<";","b","a","s","e","6","4",",">>), Len(s))
            IN \E pad \in 0..2 :
                 /\ Len(rest) - pad >= 1
                 /\ \A j \in 1..(Len(rest) - pad) : rest[j] \in B64ALPHABET
                 /\ \A j \in (Len(rest) - pad + 1)..Len(rest) : rest[j] = "="

\* the base64 text whose decoding begins with the JPEG, PNG, GIF and RIFF headers
\* b'\xff\xd8\xff', b'\x89PNG', b'GIF8', b'RIFF'
IMAGE_MAGIC == { <<"/","9","j","/">>, <<"i","V","B","O","R">>, <<"R","0","l","G","O">>, <<"U","k","l","G","R">> }

\* base64.b64decode(value[:100]) followed by decoded.startswith(...): characters
\* outside the alphabet are discarded, and a remainder that is not a whole number
\* of 4-character groups raises, which the bare except swallows.  The values of
\* the model hold no '=' among their first 100 characters.
MagicMatch(s) ==
    LET head == SubSeq(s, 1, MIN_IMAGE_LENGTH)
        data == SelectSeq(head, LAMBDA c : c \in B64ALPHABET)
    IN /\ Len(data) % 4 = 0
       /\ \E m \in IMAGE_MAGIC : StartsWith(data, m)

\* _is_base64_image
IsBase64Image(s) ==
    IF Len(s) < MIN_IMAGE_LENGTH THEN FALSE
    ELSE DataUriMatch(s) \/ MagicMatch(s)

\* a replacement as long as repr(value), which quotes a string
MaskedValueByRepr(value) ==
    IF IsBase64Image(PyStr(value)) THEN StrV(IMAGE_PLACEHOLDER)
    ELSE StrV(Stars(Len(Repr(value))))

\* _mask_data, lines 121-124: the replacement of the value of a hidden key
MaskedValue(value) ==
    IF IsBase64Image(PyStr(value)) THEN StrV(IMAGE_PLACEHOLDER)
    ELSE StrV(Stars(Len(PyStr(value))))

\* _mask_data
RECURSIVE MaskData(_, _)
MaskData(data, hidden) ==
    CASE data.t = "dict" ->
           DictV([i \in 1..Len(data.v) |->
                    KV(data.v[i].k,
                       IF Lower(data.v[i].k) \in hidden
                       THEN MaskedValue(data.v[i].v)
                       ELSE MaskData(data.v[i].v, hidden))])
      [] data.t = "list" ->
           ListV([i \in 1..Len(data.v) |-> MaskData(data.v[i], hidden)])
      [] OTHER -> data

\* _mask_auth_header
MaskAuthHeader(auth_header) ==
    IF " " \notin Range(auth_header) THEN Stars(Len(auth_header))
    ELSE LET sp == SetMin({i \in 1..Len(auth_header) : auth_header[i] = " "})
             auth_scheme == SubSeq(auth_header, 1, sp - 1)
             auth_value == SubSeq(auth_header, sp + 1, Len(auth_header))
         IN IF auth_scheme \in COMMON_AUTH_SCHEMES
            THEN auth_scheme \o <<" ">> \o Stars(Len(auth_value))
            ELSE Stars(Len(auth_header))

----------------------------------------------------------------------------
(* TelemetryGatherer: construction *)

Unset == [set |-> FALSE, v |-> <<>>]
Text(s) == [set |-> TRUE, v |-> s]

\* __init__, line 54
HiddenKeys(c) == {Lower(k) : k \in c.hidden_keys}

\* __init__, line 59
IgnoredEnvironments(c) ==
    IF c.ignored_environments = {} THEN { <<"d","e","v">>, <<"t","e","s","t">>, <<"t","e","s","t","i","n","g">> }
    ELSE {Lower(Strip(e)) : e \in c.ignored_environments}

\* __init__, line 63: environ.get('FLASK_ENV', environ.get('ENV', 'production')).lower()
CurrentEnv(env) ==
    Lower(IF env.FLASK_ENV.set THEN env.FLASK_ENV.v
          ELSE IF env.ENV.set THEN env.ENV.v
          ELSE <<"p","r","o","d","u","c","t","i","o","n">>)

\* a disabled flag that leaves the environment out
DisabledByCredentialsOnly(c, env) ==
    c.treblle_sdk_token = <<>> \/ c.treblle_api_key = <<>>

\* __init__, line 64: self._disabled
Disabled(c, env) ==
    \/ c.treblle_sdk_token = <<>>
    \/ c.treblle_api_key = <<>>
    \/ CurrentEnv(env) \in IgnoredEnvironments(c)

Absent == [set |-> FALSE]

\* __init__, lines 78-92: self._payload_template
PayloadTemplate(c) ==
    [ project_id |-> c.treblle_api_key,
      api_key |-> c.treblle_sdk_token,
      sdk |-> "flask",
      version |-> 1,
      data |-> [ server |-> [software |-> "Flask", protocol |-> "HTTP/1.1"],
                 language |-> [name |-> "python"],
                 errors |-> <<>>,
                 request |-> Absent,
                 response |-> Absent ],
      stamp |-> Absent ]

----------------------------------------------------------------------------
(* TelemetryGatherer: the transform hooks and the error records *)

ObjectV == [t |-> "object", v |-> 0]

\* can json.dumps encode x
RECURSIVE Serializable(_)
Serializable(x) ==
    CASE x.t = "object" -> FALSE
      [] x.t = "list" -> \A i \in 1..Len(x.v) : Serializable(x.v[i])
      [] x.t = "dict" -> \A i \in 1..Len(x.v) : Serializable(x.v[i].v)
      [] OTHER -> TRUE

NoException == [raised |-> FALSE]
Exception(type, args, file, line) ==
    [raised |-> TRUE, type |-> type, args |-> args, file |-> file, line |-> line]

\* the hooks an integrator may configure, by what they do with the raw body:
\*   "loads"  parses it as JSON, "raiser" raises, "opaque" returns an object that
\*   json.dumps cannot encode
Hooks == {"loads", "raiser", "opaque"}

Returned(value) == [raised |-> FALSE, value |-> value]

\* json.loads(data.decode('utf-8', 'replace'))
Loads(data) ==
    IF data.valid THEN Returned(data.doc)
    ELSE Exception("JSONDecodeError", <<"Expecting value: line 1 column 1 (char 0)">>,
                   "json/decoder.py", 355)

\* self._request_transformer(data) / self._response_transformer(data)
CallHook(hook, data) ==
    CASE hook = "loads" -> Loads(data)
      [] hook = "raiser" -> Exception("ValueError", <<"bad", "input">>, "hooks.py", 7)
      [] hook = "opaque" -> Returned(ObjectV)

\* lines 216-220 and 285-289: the hook, then json.dumps of what it returned.
\* dumps raises TypeError, which the inner `except JSONDecodeError` does not catch.
Transform(hook, data) ==
    LET r == CallHook(hook, data)
    IN IF r.raised THEN r
       ELSE IF Serializable(r.value) THEN r
       ELSE Exception("TypeError",
                      <<"Object of type object is not JSON serializable">>,
                      "json/encoder.py", 179)

\* ', '.join(str(f) for f in e.args)
RECURSIVE JoinArgs(_)
JoinArgs(args) ==
    IF args = <<>> THEN ""
    ELSE IF Len(args) = 1 THEN args[1]
    ELSE args[1] \o ", " \o JoinArgs(Tail(args))

\* the ErrorRecord built from an exception and its last traceback frame
ErrorRecord(e) ==
    [ source |-> "onError", type |-> e.type, message |-> JoinArgs(e.args),
      file |-> e.file, line |-> e.line ]

\* lines 274-280 and 307-313
SizeErrorRecord ==
    [ source |-> "onError", type |-> "E_USER_ERROR",
      message |-> "JSON response size is over 2MB", file |-> "", line |-> 0 ]

\* a handler that forgets to record the failure of a hook
HookFailureUnrecorded(errors, e) == errors

\* lines 225-231 and 294-300: payload['data']['errors'].append({...})
HookFailureRecorded(errors, e) == Append(errors, ErrorRecord(e))

\* an off-by-one in the size ceiling
ExceedsCeilingOffByOne(size) == size > MAX_RESPONSE_BODY_SIZE + 1

\* lines 273 and 306: len(response.data) > self.MAX_RESPONSE_BODY_SIZE
ExceedsCeiling(size) == size > MAX_RESPONSE_BODY_SIZE

\* `self._mask_data(body) if body else {}`
MaskedBody(body, hidden) == IF Truthy(body) THEN MaskData(body, hidden) ELSE EmptyDict

----------------------------------------------------------------------------
(* TelemetryGatherer: handle_request *)

\* dict(request.headers) and dict(request.args), as a Python dict of str
AsDict(pairs) == DictV([i \in 1..Len(pairs) |-> KV(pairs[i].k, StrV(pairs[i].v))])

\* request.headers.get(name, ''): header names compare without case
HeaderGet(headers, name) ==
    LET hit == {i \in 1..Len(headers) : Lower(headers[i].k) = Lower(name)}
    IN IF hit = {} THEN <<>> ELSE headers[SetMin(hit)].v

\* lines 156-161: the sensitive request headers
MaskRequestHeader(c, name, value) ==
    IF Lower(name) \in SENSITIVE_HEADERS
    THEN IF Lower(name) = <<"a","u","t","h","o","r","i","z","a","t","i","o","n">> /\ c.mask_auth_header
         THEN MaskAuthHeader(value)
         ELSE Stars(Len(value))
    ELSE value

\* lines 252-254: the sensitive response headers
MaskResponseHeader(c, name, value) ==
    IF Lower(name) \in SENSITIVE_HEADERS THEN Stars(Len(value)) ELSE value

\* the regular expression ^(\d{1,3}\.){3}\d{1,3}$
IsIPv4(s) ==
    LET parts == Split(s, ".")
    IN /\ Len(parts) = 4
       /\ \A i \in 1..4 : /\ Len(parts[i]) \in 1..3
                          /\ \A j \in 1..Len(parts[i]) : IsDigit(parts[i][j])

BOGON == <<"b","o","g","o","n">>

\* lines 170-178: the first candidate of a comma-separated list that is an IPv4 literal
FirstIPv4(ips) ==
    LET ok == {i \in 1..Len(ips) : IsIPv4(Strip(ips[i]))}
    IN IF ok = {} THEN BOGON ELSE Strip(ips[SetMin(ok)])

\* lines 166-180: the client IP
RequestIp(req) ==
    LET x_forwarded_for == Strip(Split(HeaderGet(req.headers, <<"X","-","F","o","r","w","a","r","d","e","d","-","F","o","r">>), ",")[1])
        request_ip == IF x_forwarded_for # <<>> THEN x_forwarded_for
                      ELSE IF req.remote_addr.set /\ req.remote_addr.v # <<>>
                           THEN req.remote_addr.v
                      ELSE BOGON
    IN IF "," \in Range(request_ip) THEN FirstIPv4(Split(request_ip, ","))
       ELSE IF ~IsIPv4(request_ip) THEN BOGON
       ELSE request_ip

\* the query string of request.url
RECURSIVE QueryString(_)
QueryString(args) ==
    IF args = <<>> THEN <<>>
    ELSE args[1].k \o <<"=">> \o args[1].v
         \o (IF Len(args) > 1 THEN <<"&">> ELSE <<>>) \o QueryString(Tail(args))

\* request.url
Url(req) ==
    <<"h","t","t","p",":","/","/","a","p","i",".","t","e","s","t">> \o req.path
    \o (IF req.args = <<>> THEN <<>> ELSE <<"?">> \o QueryString(req.args))

\* lines 183-196: the route pattern when the routing table gives one, else the path
RoutePath(req) ==
    IF req.rule.set /\ req.rule.v # <<>> /\ req.rule.v # req.path THEN req.rule.v
    ELSE req.path

\* lines 213-240: the request body and the errors after handling it
RequestBody(c, req, errors) ==
    IF req.content_length >= c.limit_request_body_size
    THEN [body |-> EmptyDict, errors |-> errors, hook |-> "skipped"]
    ELSE IF c.request_transformer # "None"
    THEN LET r == Transform(c.request_transformer, req.data)
         IN IF r.raised
            THEN [body |-> EmptyDict, errors |-> HookFailureRecorded(errors, r),
                  hook |-> "failed"]
            ELSE [body |-> MaskedBody(r.value, HiddenKeys(c)), errors |-> errors,
                  hook |-> "returned"]
    ELSE LET r == Loads(req.data)
         IN [body |-> IF r.raised THEN EmptyDict ELSE MaskedBody(r.value, HiddenKeys(c)),
             errors |-> errors,
             hook |-> IF r.raised THEN "unparsed" ELSE "parsed"]

\* handle_request, lines 148-240: the payload it stores in g
RequestPayload(c, req, time) ==
    LET template == PayloadTemplate(c)
        request_headers ==
            MaskData(DictV([i \in 1..Len(req.headers) |->
                              KV(req.headers[i].k,
                                 StrV(MaskRequestHeader(c, req.headers[i].k,
                                                        req.headers[i].v)))]),
                     HiddenKeys(c))
        b == RequestBody(c, req, template.data.errors)
    IN [template EXCEPT
          !.data.request =
              [ set |-> TRUE,
                timestamp |-> time,
                method |-> IF req.method = "" THEN "GET" ELSE req.method,
                url |-> Url(req),
                route_path |-> RoutePath(req),
                user_agent |-> HeaderGet(req.headers, <<"U","s","e","r","-","A","g","e","n","t">>),
                headers |-> request_headers,
                ip |-> RequestIp(req),
                query |-> MaskData(AsDict(req.args), HiddenKeys(c)),
                body |-> b.body ],
          !.data.errors = b.errors]

----------------------------------------------------------------------------
(* TelemetryGatherer: handle_response and finalize *)

\* lines 266-324: size, body and errors of a response, and what became of the hook
ResponseBody(c, resp, errors) ==
    IF resp.streamed
    THEN [size |-> 0, body |-> EmptyDict, errors |-> errors, hook |-> "skipped"]
    ELSE IF ExceedsCeiling(resp.data.size)
    THEN [size |-> 0, body |-> EmptyDict, errors |-> Append(errors, SizeErrorRecord),
          hook |-> "skipped"]
    ELSE IF c.response_transformer # "None"
    THEN LET r == Transform(c.response_transformer, resp.data)
         IN IF r.raised
            THEN [size |-> resp.data.size, body |-> EmptyDict,
                  errors |-> HookFailureRecorded(errors, r), hook |-> "failed"]
            ELSE [size |-> resp.data.size, body |-> MaskedBody(r.value, HiddenKeys(c)),
                  errors |-> errors, hook |-> "returned"]
    ELSE LET r == Loads(resp.data)
         IN [size |-> resp.data.size,
             body |-> IF r.raised THEN EmptyDict ELSE MaskedBody(r.value, HiddenKeys(c)),
             errors |-> errors,
             hook |-> IF r.raised THEN "unparsed" ELSE "parsed"]

\* handle_response, lines 249-324: the payload after the response is recorded
ResponsePayload(c, resp, payload, start_time, time) ==
    LET response_headers ==
            MaskData(DictV([i \in 1..Len(resp.headers) |->
                              KV(resp.headers[i].k,
                                 StrV(MaskResponseHeader(c, resp.headers[i].k,
                                                         resp.headers[i].v)))]),
                     HiddenKeys(c))
        b == ResponseBody(c, resp, payload.data.errors)
    IN [payload EXCEPT
          !.data.response =
              [ set |-> TRUE,
                code |-> IF resp.status_code = 0 THEN 200 ELSE resp.status_code,
                headers |-> response_headers,
                load_time |-> time - start_time,
                size |-> b.size,
                body |-> b.body ],
          !.data.errors = b.errors]

\* finalize, lines 333-348: the payload it returns
FinalPayload(payload, exception, time, uuid) ==
    [payload EXCEPT
       !.stamp = [set |-> TRUE, timestamp |-> time, request_id |-> uuid],
       !.data.errors = IF exception.raised THEN Append(@, ErrorRecord(exception)) ELSE @]

----------------------------------------------------------------------------
(* The exchanges the gatherer is run on *)

\* an environment with neither FLASK_ENV nor ENV
NoEnvironment == [FLASK_ENV |-> Unset, ENV |-> Unset]

\* a configuration with both credentials, the default ignored environments and no hook
BaseConfig ==
    [ treblle_sdk_token |-> <<"t","o","k">>,
      treblle_api_key |-> <<"k","e","y">>,
      hidden_keys |-> { <<"P","a","s","s","w","o","r","d">> },
      mask_auth_header |-> TRUE,
      limit_request_body_size |-> 1024,
      request_transformer |-> "None",
      response_transformer |-> "None",
      ignored_environments |-> {} ]

BaseSetup == [cfg |-> BaseConfig, environ |-> NoEnvironment]

\* the hooks of a configuration: none, one on either side, or both
HookPairs ==
    {<<"None", "None">>, <<"raiser", "raiser">>}
    \cup {<<h, "None">> : h \in Hooks} \cup {<<"None", h>> : h \in Hooks}

\* configurations in the production environment: the gatherer is enabled
EnabledSetups ==
    { [ cfg |-> [BaseConfig EXCEPT !.hidden_keys = hk,
                                   !.mask_auth_header = m,
                                   !.request_transformer = hp[1],
                                   !.response_transformer = hp[2]],
        environ |-> NoEnvironment ] :
        hk \in { { <<"P","a","s","s","w","o","r","d">> },
                 { <<"p","a","s","s","w","o","r","d">>,
                   <<"A","u","t","h","o","r","i","z","a","t","i","o","n">> } },
        m \in BOOLEAN,
        hp \in HookPairs }

\* configurations and environments that decide the disabled flag
SwitchSetups ==
    { [cfg |-> [BaseConfig EXCEPT !.treblle_sdk_token = <<>>], environ |-> NoEnvironment],
      [cfg |-> [BaseConfig EXCEPT !.treblle_api_key = <<>>], environ |-> NoEnvironment],
      [cfg |-> BaseConfig, environ |-> [FLASK_ENV |-> Text(<<"D","e","v">>), ENV |-> Unset]],
      [cfg |-> BaseConfig, environ |-> [FLASK_ENV |-> Unset, ENV |-> Text(<<"t","e","s","t","i","n","g">>)]],
      [cfg |-> BaseConfig,
       environ |-> [FLASK_ENV |-> Text(<<"p","r","o","d","u","c","t","i","o","n">>), ENV |-> Text(<<"d","e","v">>)]],
      [cfg |-> [BaseConfig EXCEPT !.ignored_environments = { <<" ","P","r","o","d","u","c","t","i","o","n"," ">> }],
       environ |-> NoEnvironment],
      [cfg |-> [BaseConfig EXCEPT !.ignored_environments = { <<"s","t","a","g","i","n","g">> }],
       environ |-> [FLASK_ENV |-> Text(<<"d","e","v">>), ENV |-> Unset]] }

Setups == EnabledSetups \cup SwitchSetups

NoBody == [size |-> 0, valid |-> FALSE, doc |-> NullV]
JsonBody(size, doc) == [size |-> size, valid |-> TRUE, doc |-> doc]

BaseRequest ==
    [ method |-> "GET", path |-> <<"/","i","t","e","m","s">>, rule |-> Text(<<"/","i","t","e","m","s">>),
      headers |-> <<>>, args |-> <<>>, remote_addr |-> Text(<<"1","0",".","1",".","1",".","1">>),
      content_length |-> 0, data |-> NoBody ]

\* a raw PNG in base64, 120 characters
RawImage == <<"i","V","B","O","R","w","0","K","G","g","o">> \o [i \in 1..109 |-> "A"]

LoginDoc == DictV(<< KV(<<"p","a","s","s","w","o","r","d">>, StrV(<<"s","e","c","r","e","t">>)), KV(<<"n","a","m","e">>, StrV(<<"a","l">>)) >>)

NestedDoc ==
    ListV(<< DictV(<< KV(<<"u","s","e","r">>,
                         DictV(<< KV(<<"P","a","s","s","w","o","r","d">>, IntV(4711)),
                                  KV(<<"a","v","a","t","a","r">>, StrV(<<"p","i","c">>)) >>)),
                      KV(<<"P","A","S","S","W","O","R","D">>, StrV(RawImage)) >>),
             StrV(<<"t","a","i","l">>) >>)

\* requests that differ in the forwarded-for header and the remote address
IpRequests ==
    { [BaseRequest EXCEPT !.headers = IF x.set THEN <<KV(<<"X","-","F","o","r","w","a","r","d","e","d","-","F","o","r">>, x.v)>>
                                      ELSE <<>>,
                          !.remote_addr = r] :
        x \in { Unset, Text(<<"1","0",".","0",".","0",".","5",","," ","9",".","9",".","9",".","9">>), Text(<<"n","o","t","-","a","n","-","i","p">>),
                Text(<<"j","u","n","k",","," ","9",".","9",".","9",".","9">>), Text(<<>>) },
        r \in { Unset, Text(<<"8",".","8",".","8",".","8">>), Text(<<"n","o","p","e">>) } }

\* requests that differ in their sensitive headers
HeaderRequests ==
    { [BaseRequest EXCEPT !.headers = h] :
        h \in { << KV(<<"A","u","t","h","o","r","i","z","a","t","i","o","n">>, <<"B","e","a","r","e","r"," ","a","b","c","1","2","3">>), KV(<<"U","s","e","r","-","A","g","e","n","t">>, <<"c","u","r","l">>) >>,
                << KV(<<"A","u","t","h","o","r","i","z","a","t","i","o","n">>, <<"g","a","r","b","l","e","d">>), KV(<<"X","-","A","p","i","-","K","e","y">>, <<"k","9">>) >>,
                << KV(<<"A","u","t","h","o","r","i","z","a","t","i","o","n">>, <<"T","o","k","e","n"," ","a","b","c">>), KV(<<"P","a","s","s","w","o","r","d">>, <<"h","d","r","p","w">>) >> } }

\* requests that differ in their query parameters and body
BodyRequests ==
    { [BaseRequest EXCEPT !.method = "POST", !.path = <<"/","l","o","g","i","n">>,
                          !.rule = Unset, !.args = a,
                          !.content_length = b.cl, !.data = b.data] :
        a \in { <<>>, << KV(<<"p","a","s","s","w","o","r","d">>, <<"h","u","n","t","e","r","2">>), KV(<<"q">>, <<"x">>) >> },
        b \in { [cl |-> 34, data |-> JsonBody(34, LoginDoc)],
                [cl |-> 0, data |-> JsonBody(200, NestedDoc)],
                [cl |-> 9, data |-> [size |-> 9, valid |-> FALSE, doc |-> NullV]],
                [cl |-> 1024, data |-> JsonBody(1024, LoginDoc)] } }

RequestInputs == IpRequests \cup HeaderRequests \cup BodyRequests

BaseResponse ==
    [ set |-> TRUE, status_code |-> 200, headers |-> <<>>, streamed |-> FALSE,
      data |-> JsonBody(34, LoginDoc) ]

ResponseInputs ==
    { BaseResponse,
      [BaseResponse EXCEPT !.headers = << KV(<<"A","u","t","h","o","r","i","z","a","t","i","o","n">>, <<"B","e","a","r","e","r"," ","a","b","c","1","2","3">>),
                                          KV(<<"X","-","A","P","I","-","K","E","Y">>, <<"k","9">>) >>,
                           !.data = JsonBody(200, NestedDoc)],
      [BaseResponse EXCEPT !.status_code = 0,
                           !.data = [size |-> 12, valid |-> FALSE, doc |-> NullV]],
      [BaseResponse EXCEPT !.streamed = TRUE],
      [BaseResponse EXCEPT !.data = JsonBody(MAX_RESPONSE_BODY_SIZE, LoginDoc)],
      [BaseResponse EXCEPT !.data = JsonBody(MAX_RESPONSE_BODY_SIZE + 1, LoginDoc)],
      [BaseResponse EXCEPT !.data = [size |-> MAX_RESPONSE_BODY_SIZE + 1,
                                     valid |-> FALSE, doc |-> NullV]] }

\* what the host passes to finalize: None or the unhandled exception
Exceptions == { NoException, Exception("KeyError", <<"missing">>, "views.py", 12) }

\* str(uuid4()): a fresh identifier, opaque to the gatherer
Uuids == {"uuid4"}

----------------------------------------------------------------------------
(* TelemetryGatherer: the handlers, run by the host on one exchange *)

NoCall == [call |-> "none", raised |-> "none", response |-> Absent, payload |-> Absent]
Given(x) == [set |-> TRUE, v |-> x]

\* the state before the host has called anything: flask.g holds nothing
ExchangeInit(setups) ==
    /\ \E s \in setups : cfg = s.cfg /\ environ = s.environ
    /\ g = [has |-> FALSE, treblle_payload |-> Absent, treblle_start_time |-> 0]
    /\ now = 0
    /\ ret = NoCall
    /\ hist = [req |-> Absent, resp |-> Absent, exc |-> Absent,
               reqHook |-> "none", respHook |-> "none", errorsBefore |-> 0]
    /\ done = {}

\* the gatherer after construction, no value being masked
GathInit(setups) == ExchangeInit(setups) /\ passes = <<>>

\* the host calls each handler at most once per exchange, in any order, and stops
\* at the first one that raises
MayCall(name) == name \notin done /\ ret.raised = "none"

\* handle_request
HandleRequest(req) ==
    /\ MayCall("handle_request")
    /\ done' = done \cup {"handle_request"}
    /\ ret' = [NoCall EXCEPT !.call = "handle_request"]
    /\ IF Disabled(cfg, environ)
       THEN /\ g' = g
            /\ hist' = [hist EXCEPT !.req = Given(req)]
       ELSE /\ g' = [has |-> TRUE,
                     treblle_payload |-> RequestPayload(cfg, req, now),
                     treblle_start_time |-> now]
            /\ hist' = [hist EXCEPT
                          !.req = Given(req),
                          !.reqHook = RequestBody(cfg, req, <<>>).hook]
    /\ UNCHANGED pubvars
    /\ UNCHANGED <<cfg, environ, now, passes>>

\* handle_response
HandleResponse(resp) ==
    /\ MayCall("handle_response")
    /\ done' = done \cup {"handle_response"}
    /\ IF Disabled(cfg, environ)
       THEN /\ ret' = [NoCall EXCEPT !.call = "handle_response", !.response = resp]
            /\ g' = g
            /\ hist' = [hist EXCEPT !.resp = Given(resp)]
       ELSE IF ~g.has
       THEN \* line 259: g has no attribute treblle_payload
            /\ ret' = [NoCall EXCEPT !.call = "handle_response",
                                     !.raised = "AttributeError"]
            /\ g' = g
            /\ hist' = [hist EXCEPT !.resp = Given(resp)]
       ELSE /\ ret' = [NoCall EXCEPT !.call = "handle_response", !.response = resp]
            /\ g' = [g EXCEPT !.treblle_payload =
                        ResponsePayload(cfg, resp, @, g.treblle_start_time, now)]
            /\ hist' = [hist EXCEPT
                          !.resp = Given(resp),
                          !.errorsBefore = Len(g.treblle_payload.data.errors),
                          !.respHook =
                              ResponseBody(cfg, resp, g.treblle_payload.data.errors).hook]
    /\ UNCHANGED pubvars
    /\ UNCHANGED <<cfg, environ, now, passes>>

\* finalize
Finalize(exception, uuid) ==
    /\ MayCall("finalize")
    /\ done' = done \cup {"finalize"}
    /\ hist' = [hist EXCEPT !.exc = Given(exception)]
    /\ IF Disabled(cfg, environ) \/ ~g.has
       THEN /\ ret' = [NoCall EXCEPT !.call = "finalize"]
            /\ g' = g
       ELSE /\ g' = [g EXCEPT !.treblle_payload = FinalPayload(@, exception, now, uuid)]
            /\ ret' = [NoCall EXCEPT !.call = "finalize",
                                     !.payload = g'.treblle_payload]
    /\ UNCHANGED pubvars
    /\ UNCHANGED <<cfg, environ, now, passes>>

\* one millisecond passes between two calls
TimePasses ==
    /\ now < MaxNow
    /\ ret.raised = "none"
    /\ now' = now + 1
    /\ UNCHANGED pubvars
    /\ UNCHANGED <<cfg, environ, g, ret, hist, done, passes>>

GathNext ==
    \/ \E req \in RequestInputs : HandleRequest(req)
    \/ \E resp \in ResponseInputs : HandleResponse(resp)
    \/ \E exception \in Exceptions, uuid \in Uuids : Finalize(exception, uuid)
    \/ TimePasses

----------------------------------------------------------------------------
(* TelemetryGatherer: _mask_data applied to a value, and to its own result *)

\* a data URI of a PNG, 122 characters
DataUriImage == <<"d","a","t","a",":","i","m","a","g","e","/","p","n","g",";","b","a","s","e","6","4",",">> \o [i \in 1..100 |-> "A"]

\* the values a key may hold
MaskValues ==
    { StrV(<<"s","e","c","r","e","t">>), StrV(<<>>), IntV(4711), NullV,
      StrV(RawImage), StrV(DataUriImage), StrV(IMAGE_PLACEHOLDER),
      ListV(<< StrV(<<"a">>), IntV(7) >>),
      DictV(<< KV(<<"p","i","n">>, IntV(12)) >>) }

\* the keys they are held under
MaskKeys == { <<"p","a","s","s","w","o","r","d">>, <<"P","a","s","s","w","o","r","d">>, <<"n","a","m","e">> }

\* the values given to _mask_data: scalars, mappings, lists, and mappings in
\* lists and in mappings
MaskInputs ==
    MaskValues
    \cup { DictV(<< KV(k, v) >>) : k \in MaskKeys, v \in MaskValues }
    \cup { ListV(<< DictV(<< KV(k, v) >>), v >>) : k \in MaskKeys, v \in MaskValues }
    \cup { DictV(<< KV(<<"u","s","e","r">>, DictV(<< KV(k, v), KV(<<"p","i","n">>, StrV(<<"0","0","0","0">>)) >>)) >>) :
             k \in MaskKeys, v \in MaskValues }
    \cup { LoginDoc, NestedDoc }

\* the gatherers that mask them: no hidden key, one, and two
MaskSetups ==
    { [cfg |-> [BaseConfig EXCEPT !.hidden_keys = hk], environ |-> NoEnvironment] :
        hk \in { {}, { <<"P","a","s","s","w","o","r","d">> }, { <<"P","I","N">>, <<"N","a","m","e">> } } }

\* one more pass of _mask_data, over the result of the pass before
MaskPass ==
    /\ passes # <<>>
    /\ Len(passes) <= MaxPasses
    /\ passes' = Append(passes, MaskData(passes[Len(passes)], HiddenKeys(cfg)))
    /\ UNCHANGED pubvars
    /\ UNCHANGED <<cfg, environ, g, now, ret, hist, done>>

----------------------------------------------------------------------------
(* Specifications *)

\* Delivery: two request threads submit while one thread may tear the publisher down
Init == PubInit(RequestThreads, {"t1"}) /\ GathInit({BaseSetup})

Next == Worker \/ RequestSteps(MaxSends) \/ Teardowns(1)

Spec == Init /\ [][Next]_vars

\* Timed delivery: as Spec, with the time a caller spends in future.result counted
NextTimed == Worker \/ TimedRequestSteps(MaxTimedSends) \/ Teardowns(1)

SpecTimed == Init /\ [][NextTimed]_vars

\* Shutdown: two threads call teardown repeatedly while one request thread submits
InitShutdown == PubInit({"r1"}, TeardownThreads) /\ GathInit({BaseSetup})

NextShutdown == Worker \/ RequestSteps(1) \/ Teardowns(MaxTeardowns)

SpecShutdown == InitShutdown /\ [][NextShutdown]_vars

\* Gathering: the host runs the handlers of one exchange; the publisher only exists
InitGatherer == PubInit({}, {}) /\ custom_url = "None" /\ GathInit(Setups)

NextGatherer == GathNext

SpecGatherer == InitGatherer /\ [][NextGatherer]_vars

\* Masking: a gatherer masks one value, then masks the result again
InitMask ==
    /\ PubInit({}, {}) /\ custom_url = "None"
    /\ ExchangeInit(MaskSetups)
    /\ \E d \in MaskInputs : passes = <<d>>

NextMask == MaskPass

SpecMask == InitMask /\ [][NextMask]_vars

----------------------------------------------------------------------------
(* Claims about the publisher *)

\* the process callbacks still waiting in the event loop's queue
QueuedPayloads == {i \in 1..Len(ready) : ready[i].kind = "process"}

\* C1: send_to_treblle returns without waiting for the network exchange of its
\* payload: no request thread ever spends time blocked in send_to_treblle while
\* the POST of its payload is in flight.
C1_SubmitNeverWaitsOnNetwork ==
    \A t \in DOMAIN callers :
        ~(Blocked(t) /\ callers[t].p \in inflight /\ callers[t].waited > 0)

\* C2: every submitted payload is attempted exactly once (none lost, none
\* duplicated, none retried), the k-th attempt in worker order targets endpoint
\* (k-1) mod L of the configured list, consecutive attempts differ when L >= 2 and
\* every attempt hits the override endpoint when one is configured.
C2_ExactlyOnceRoundRobin ==
    LET hl == HostList(custom_url)
        L == Len(hl)
    IN
      /\ Len(attempts) + Cardinality(QueuedPayloads) = nsent
      /\ \A j, k \in 1..Len(attempts) : attempts[j].id = attempts[k].id => j = k
      /\ \A k \in 1..Len(attempts) : attempts[k].host = hl[((k - 1) % L) + 1]
      /\ L >= 2 => \A k \in 1..(Len(attempts) - 1) :
                      attempts[k].host # attempts[k + 1].host
      /\ custom_url # "None" => \A k \in 1..Len(attempts) : attempts[k].host = custom_url
      /\ QueuedPayloads = {} => Len(attempts) = nsent

\* C2 witness: both request threads are inside send_to_treblle at once, four
\* payloads have been attempted over the three backend hosts and the rotation has
\* wrapped around.
C2_Witness ==
    /\ custom_url = "None"
    /\ \A t \in DOMAIN callers : callers[t].pc = "waiting"
    /\ Len(attempts) = 4
    /\ attempts[4].host = BACKEND_HOSTS[1]

\* C3: a failed delivery attempt raises nothing into the calling thread, leaves no
\* exception in the future of its coroutine and does not stop the worker: the
\* loop only ever ends because teardown asked it to.
C3_FailuresSwallowed ==
    /\ \A t \in DOMAIN callers : callers[t].raised = "none"
    /\ \A k \in 1..Len(futres) : futres[k] \in {"pending", "None"}
    /\ loop = "exited" =>
          \E u \in DOMAIN closers : closers[u].pc = "join" \/ closers[u].returned

\* C3 witness: the first attempt failed, the worker is still running and has
\* delivered the next payload, and every caller has returned normally.
C3_Witness ==
    /\ Len(attempts) >= 2
    /\ attempts[1].outcome = "failed"
    /\ attempts[2].outcome = "done"
    /\ loop = "running"
    /\ \A t \in DOMAIN callers : callers[t].pc = "idle" /\ callers[t].raised = "none"

\* an invocation of teardown that can never return: it waits, without a timeout,
\* for a coroutine handed to a loop that has already stopped
Hung(u) == closers[u].pc = "result" /\ closeres[u] = "pending" /\ loop = "exited"

\* C4: teardown is idempotent and safe: no invocation hangs, and once an invocation
\* has returned the connection context is closed, the loop is stopped and the
\* worker thread has ended.
C4_TeardownIdempotentSafe ==
    /\ \A u \in DOMAIN closers : ~Hung(u)
    /\ \A u \in DOMAIN closers :
          closers[u].returned => ctx = "exited" /\ loop = "exited"

----------------------------------------------------------------------------
(* Claims about the gatherer *)

\* the payload in progress and its parts
InProgress == g.treblle_payload
Errors == InProgress.data.errors

\* C5: when the SDK token is missing, the API key is missing or the current
\* environment is in the ignored set, the handlers are no-ops in every call order:
\* nothing is stored in g, nothing is raised, handle_response returns the response
\* it was given and finalize returns no payload.
C5_DisabledIsNoOp ==
    (\/ cfg.treblle_sdk_token = <<>>
     \/ cfg.treblle_api_key = <<>>
     \/ CurrentEnv(environ) \in IgnoredEnvironments(cfg))
    => /\ g = [has |-> FALSE, treblle_payload |-> Absent, treblle_start_time |-> 0]
       /\ ret.raised = "none"
       /\ ret.payload = Absent
       /\ ret.call = "handle_response" => ret.response = hist.resp.v
       /\ ret.call # "handle_response" => ret.response = Absent

\* C5 witness: both credentials are present, the environment alone disables the
\* gatherer, and the host has called all three handlers, the response last.
C5_Witness ==
    /\ cfg.treblle_sdk_token # <<>> /\ cfg.treblle_api_key # <<>>
    /\ CurrentEnv(environ) \in IgnoredEnvironments(cfg)
    /\ done = {"handle_request", "handle_response", "finalize"}
    /\ ret.call = "handle_response"

\* every text held by a value, at any depth
RECURSIVE Leaves(_)
Leaves(x) ==
    CASE x.t = "str" -> {x.v}
      [] x.t = "int" -> {Digits(x.v)}
      [] x.t = "list" -> UNION {Leaves(x.v[i]) : i \in 1..Len(x.v)}
      [] x.t = "dict" -> UNION {Leaves(x.v[i].v) : i \in 1..Len(x.v)}
      [] OTHER -> {}

\* the clear values supplied under a hidden key, at any depth
RECURSIVE HiddenValues(_, _)
HiddenValues(x, hidden) ==
    CASE x.t = "list" -> UNION {HiddenValues(x.v[i], hidden) : i \in 1..Len(x.v)}
      [] x.t = "dict" ->
           UNION {IF Lower(x.v[i].k) \in hidden THEN {PyStr(x.v[i].v)}
                  ELSE HiddenValues(x.v[i].v, hidden) : i \in 1..Len(x.v)}
      [] OTHER -> {}

\* the secrets of the exchange: the hidden-key values of its query parameters,
\* headers, request body and response body
Secrets ==
    LET hidden == {Lower(k) : k \in cfg.hidden_keys}
        ofRequest ==
            IF hist.req.set
            THEN HiddenValues(AsDict(hist.req.v.args), hidden)
                 \cup HiddenValues(AsDict(hist.req.v.headers), hidden)
                 \cup (IF hist.req.v.data.valid
                       THEN HiddenValues(hist.req.v.data.doc, hidden) ELSE {})
            ELSE {}
        ofResponse ==
            IF hist.resp.set
            THEN HiddenValues(AsDict(hist.resp.v.headers), hidden)
                 \cup (IF hist.resp.v.data.valid
                       THEN HiddenValues(hist.resp.v.data.doc, hidden) ELSE {})
            ELSE {}
    IN ofRequest \cup ofResponse

\* every text field of a payload
PayloadTexts(p) ==
    (IF p.data.request.set
     THEN {p.data.request.url, p.data.request.route_path, p.data.request.user_agent,
           p.data.request.ip}
          \cup Leaves(p.data.request.headers) \cup Leaves(p.data.request.query)
          \cup Leaves(p.data.request.body)
     ELSE {})
    \cup (IF p.data.response.set
          THEN Leaves(p.data.response.headers) \cup Leaves(p.data.response.body)
          ELSE {})

\* C6: secrets never leak: no clear value supplied under a hidden key appears in
\* any field of the payload returned by finalize.
C6_SecretsNeverLeak ==
    (ret.call = "finalize" /\ ret.payload # Absent)
    => \A secret \in Secrets : \A text \in PayloadTexts(ret.payload) :
          ~Within(secret, text)

\* the client IP the forwarded-for header and the remote address should give
ClaimedIp(req) ==
    LET xff == HeaderGet(req.headers, <<"X","-","F","o","r","w","a","r","d","e","d","-","F","o","r">>)
        candidates == Split(xff, ",")
        valid == {i \in 1..Len(candidates) : IsIPv4(Strip(candidates[i]))}
    IN IF valid # {} THEN Strip(candidates[SetMin(valid)])
       ELSE IF req.remote_addr.set /\ IsIPv4(req.remote_addr.v) THEN req.remote_addr.v
       ELSE BOGON

\* C7: the client IP recorded by handle_request is the first forwarded-for value
\* when it is an IPv4 literal, otherwise the first IPv4 literal among the
\* forwarded-for values, otherwise the remote address when it is an IPv4 literal,
\* otherwise "bogon"; it is never empty.
C7_ClientIp ==
    (g.has /\ hist.req.set)
    => /\ InProgress.data.request.ip = ClaimedIp(hist.req.v)
       /\ InProgress.data.request.ip # <<>>

\* the records of the size ceiling among the errors
SizeErrors == {i \in 1..Len(Errors) : Errors[i].type = "E_USER_ERROR"}

\* C8: a non-streamed response whose body is longer than 2 MiB never has its body
\* placed in the payload: the body is the empty object, the size is 0, exactly one
\* E_USER_ERROR record is appended and the response transformer is not invoked,
\* with or without a response transform hook.
C8_OversizedResponse ==
    (/\ g.has /\ hist.resp.set /\ InProgress.data.response.set
     /\ ~hist.resp.v.streamed
     /\ hist.resp.v.data.size > 2 * 1024 * 1024)
    => /\ InProgress.data.response.body = EmptyDict
       /\ InProgress.data.response.size = 0
       /\ SizeErrors = {hist.errorsBefore + 1}
       /\ Errors[hist.errorsBefore + 1] = SizeErrorRecord
       /\ hist.respHook = "skipped"
       /\ ret.raised = "none"

\* C8 witness: a response transformer is configured, the request transformer has
\* failed before, and a response of 2 MiB + 1 bytes of valid JSON has been handled.
C8_Witness ==
    /\ g.has /\ hist.resp.set /\ InProgress.data.response.set
    /\ cfg.response_transformer = "raiser"
    /\ hist.errorsBefore = 1
    /\ ~hist.resp.v.streamed
    /\ hist.resp.v.data.size = 2 * 1024 * 1024 + 1
    /\ hist.resp.v.data.valid
    /\ ret.call = "handle_response"

\* does the hook raise on the raw body, or return what json.dumps cannot encode
HookFails(hook, data) ==
    hook # "None" /\ (CallHook(hook, data).raised
                      \/ ~Serializable(CallHook(hook, data).value))

\* is the error record that of the failure of the hook on the raw body
RecordsFailure(record, hook, data) ==
    LET r == CallHook(hook, data)
    IN /\ record.source = "onError"
       /\ IF r.raised
          THEN record.type = r.type /\ record.message = JoinArgs(r.args)
          ELSE /\ record.type = "TypeError"
               /\ record.message = "Object of type object is not JSON serializable"

\* was the request hook, or the direct parse, run on the body of the request
RequestBodyRead == hist.req.v.content_length < cfg.limit_request_body_size

\* was the response hook, or the direct parse, run on the body of the response
ResponseBodyRead ==
    ~hist.resp.v.streamed /\ hist.resp.v.data.size <= 2 * 1024 * 1024

\* C9: when a transform hook raises or returns a value that is not JSON
\* serializable, its handler appends exactly one ErrorRecord with the type name and
\* message of the exception, substitutes the empty object for the body and raises
\* nothing; a direct-parse failure without a hook gives the empty object and no
\* ErrorRecord.
C9_HookFailures ==
    /\ (/\ g.has /\ ret.call = "handle_request" /\ RequestBodyRead
        /\ HookFails(cfg.request_transformer, hist.req.v.data))
       => /\ Len(Errors) = 1
          /\ RecordsFailure(Errors[1], cfg.request_transformer, hist.req.v.data)
          /\ InProgress.data.request.body = EmptyDict
          /\ ret.raised = "none"
    /\ (/\ g.has /\ ret.call = "handle_request" /\ RequestBodyRead
        /\ cfg.request_transformer = "None" /\ ~hist.req.v.data.valid)
       => /\ Errors = <<>>
          /\ InProgress.data.request.body = EmptyDict
          /\ ret.raised = "none"
    /\ (/\ g.has /\ ret.call = "handle_response" /\ InProgress.data.response.set
        /\ ResponseBodyRead
        /\ HookFails(cfg.response_transformer, hist.resp.v.data))
       => /\ Len(Errors) = hist.errorsBefore + 1
          /\ RecordsFailure(Errors[Len(Errors)], cfg.response_transformer,
                            hist.resp.v.data)
          /\ InProgress.data.response.body = EmptyDict
          /\ ret.raised = "none"
    /\ (/\ g.has /\ ret.call = "handle_response" /\ InProgress.data.response.set
        /\ ResponseBodyRead
        /\ cfg.response_transformer = "None" /\ ~hist.resp.v.data.valid)
       => /\ Len(Errors) = hist.errorsBefore
          /\ InProgress.data.response.body = EmptyDict
          /\ ret.raised = "none"

\* C9 witness: both hooks are configured and both have raised on this exchange,
\* leaving two error records.
C9_Witness ==
    /\ g.has /\ ret.call = "handle_response" /\ InProgress.data.response.set
    /\ RequestBodyRead /\ ResponseBodyRead
    /\ HookFails(cfg.request_transformer, hist.req.v.data)
    /\ HookFails(cfg.response_transformer, hist.resp.v.data)
    /\ Len(Errors) = 2

\* the policy for the authorization header: the scheme is kept and the credential
\* replaced by stars when the header splits on its first space into a scheme of the
\* fixed set and a value, and the whole header is replaced by stars otherwise
ClaimedAuthMask(h) ==
    LET spaces == {i \in 1..Len(h) : h[i] = " "}
    IN IF spaces # {}
          /\ SubSeq(h, 1, SetMin(spaces) - 1) \in
               { <<"B","a","s","i","c">>, <<"B","e","a","r","e","r">>,
                 <<"D","i","g","e","s","t">>, <<"N","e","g","o","t","i","a","t","e">>,
                 <<"O","A","u","t","h">>,
                 <<"A","W","S","4","-","H","M","A","C","-","S","H","A","2","5","6">>,
                 <<"H","O","B","A">>, <<"M","u","t","u","a","l">> }
       THEN SubSeq(h, 1, SetMin(spaces)) \o Stars(Len(h) - SetMin(spaces))
       ELSE Stars(Len(h))

\* do the recorded headers follow the policy for every authorization header given
FollowsAuthPolicy(given, recorded) ==
    \A i \in 1..Len(given) :
        Lower(given[i].k) = <<"a","u","t","h","o","r","i","z","a","t","i","o","n">>
        => recorded.v[i].v = StrV(ClaimedAuthMask(given[i].v))

\* C10: with auth-header masking enabled, the authorization header recorded in the
\* payload follows the scheme-preserving policy, for request headers and for
\* response headers alike, as it finally appears after the hidden-key pass.
C10_AuthHeaderPolicy ==
    (g.has /\ cfg.mask_auth_header)
    => /\ (hist.req.set /\ InProgress.data.request.set)
           => FollowsAuthPolicy(hist.req.v.headers, InProgress.data.request.headers)
       /\ (hist.resp.set /\ InProgress.data.response.set)
           => FollowsAuthPolicy(hist.resp.v.headers, InProgress.data.response.headers)

----------------------------------------------------------------------------
(* Claims about masking *)

\* the result of the first pass of _mask_data and the result of the second
FirstPass == passes[2]
SecondPass == passes[3]

\* the values two documents of one shape hold under the hidden keys, pairwise
RECURSIVE HiddenPairs(_, _, _)
HiddenPairs(a, b, hidden) ==
    IF a.t # b.t \/ a.t \notin {"list", "dict"} \/ Len(a.v) # Len(b.v) THEN {}
    ELSE IF a.t = "list"
    THEN UNION {HiddenPairs(a.v[i], b.v[i], hidden) : i \in 1..Len(a.v)}
    ELSE UNION {IF Lower(a.v[i].k) \in hidden
                THEN {<<a.v[i].v, b.v[i].v>>}
                ELSE HiddenPairs(a.v[i].v, b.v[i].v, hidden) : i \in 1..Len(a.v)}

\* C11 as stated: masking is idempotent: _mask_data(_mask_data(d)) equals
\* _mask_data(d) for every nested value d and every hidden-key set, the values the
\* first pass replaced by the image placeholder included, and every hidden-key
\* value is as long after the second pass as after the first.
C11_MaskingIdempotent ==
    Len(passes) >= 3
    => /\ SecondPass = FirstPass
       /\ \A pair \in HiddenPairs(FirstPass, SecondPass, HiddenKeys(cfg)) :
              Len(PyStr(pair[1])) = Len(PyStr(pair[2]))

\* are two documents equal but for the values of the hidden keys
RECURSIVE EqualOutsideHidden(_, _, _)
EqualOutsideHidden(a, b, hidden) ==
    IF a.t # b.t THEN FALSE
    ELSE IF a.t = "list"
    THEN /\ Len(a.v) = Len(b.v)
         /\ \A i \in 1..Len(a.v) : EqualOutsideHidden(a.v[i], b.v[i], hidden)
    ELSE IF a.t = "dict"
    THEN /\ Len(a.v) = Len(b.v)
         /\ \A i \in 1..Len(a.v) :
              /\ a.v[i].k = b.v[i].k
              /\ Lower(a.v[i].k) \notin hidden
                 => EqualOutsideHidden(a.v[i].v, b.v[i].v, hidden)
    ELSE a = b

\* C11 as amended: a second pass of _mask_data changes nothing outside the values
\* of the hidden keys and keeps the length of each of them; it leaves a value of
\* stars as it is and turns the image placeholder of the first pass into stars of
\* the placeholder's length; from the second pass on the result no longer changes.
C11_MaskingIdempotentButForImages ==
    /\ Len(passes) >= 3
       => /\ EqualOutsideHidden(FirstPass, SecondPass, HiddenKeys(cfg))
          /\ \A pair \in HiddenPairs(FirstPass, SecondPass, HiddenKeys(cfg)) :
               /\ pair[1].t = "str" /\ pair[2].t = "str"
               /\ Len(pair[1].v) = Len(pair[2].v)
               /\ pair[2] = IF pair[1].v = IMAGE_PLACEHOLDER
                            THEN StrV(Stars(Len(IMAGE_PLACEHOLDER)))
                            ELSE pair[1]
    /\ Len(passes) >= 4 => passes[4] = SecondPass

\* C11 witness: a value was masked three times; the first pass changed it, the
\* second pass changed the placeholder the first had put in, the third changed
\* nothing.
C11_Witness ==
    /\ Len(passes) = 4
    /\ FirstPass # passes[1]
    /\ \E pair \in HiddenPairs(FirstPass, SecondPass, HiddenKeys(cfg)) :
         /\ pair[1] = StrV(IMAGE_PLACEHOLDER)
         /\ pair[2] = StrV(Stars(Len(IMAGE_PLACEHOLDER)))
    /\ passes[4] = SecondPass

----------------------------------------------------------------------------
(* Claims about the lifecycle of an exchange *)

\* is the gatherer enabled: both credentials given, environment not ignored
Enabled ==
    /\ cfg.treblle_sdk_token # <<>>
    /\ cfg.treblle_api_key # <<>>
    /\ CurrentEnv(environ) \notin IgnoredEnvironments(cfg)

\* C12: the gatherer is fail-open over the whole lifecycle: for an enabled gatherer
\* and every order of handle_request, handle_response and finalize, also when
\* handle_request never ran, no call raises into the request path, handle_response
\* returns the response it was given, and finalize returns no payload when no
\* payload is in progress.
C12_FailOpen ==
    Enabled
    => /\ ret.raised = "none"
       /\ ret.call = "handle_response" => ret.response = hist.resp.v
       /\ (ret.call = "finalize" /\ "handle_request" \notin done)
          => ret.payload = Absent

====
